---- MODULE Spec2Model ----
(***************************************************************************)
(* Model of messenger465_client.py: the MessageBoardNetwork request/reply  *)
(* exchange (getMessages, postMessage) over a datagram socket, and the     *)
(* MessageBoardController callbacks that drive it.                         *)
(*                                                                         *)
(* A datagram is a sequence of bytes (0..255).  The client blocks only in  *)
(* select(); everything between two select() calls is one atomic action.   *)
(***************************************************************************)
EXTENDS Integers, Sequences, FiniteSets

(***************************************************************************)
(* Bounds of the model.                                                    *)
(***************************************************************************)
MaxRetries == 2      \* --retries is drawn from 0..MaxRetries
MaxQueue == 1        \* datagrams waiting in the socket's receive queue
MaxRejects == 2      \* replies delivered to one exchange after which the channel goes quiet
MaxExchanges == 2    \* calls of getMessages/postMessage in one run

(***************************************************************************)
(* Byte strings used by the program.                                       *)
(***************************************************************************)
VERSION == 67                                  \* 'C'
DIGIT0 == 48                                   \* '0'
SPACE == 32                                    \* ' '
COLON == 58                                    \* ':'
GET == <<71, 69, 84>>                          \* "GET"
POST_ == <<80, 79, 83, 84, 32>>                \* "POST "
OK == <<79, 75>>                               \* "OK"
ERROR == <<69, 82, 82, 79, 82>>                \* "ERROR"
SEP == <<COLON, COLON>>                        \* "::"
\* "no messages currently"
NO_MESSAGES ==
    <<110, 111, 32, 109, 101, 115, 115, 97, 103, 101, 115, 32, 99, 117, 114, 114, 101, 110, 116, 108, 121>>

\* myname, read once from input() at start-up ("u")
myname == <<117>>
\* a text the user types into the entry field ("m"); newMessage ignores the
\* empty text
Entries == {<<109>>}

(***************************************************************************)
(* Python helpers.                                                         *)
(***************************************************************************)
Min(a, b) == IF a < b THEN a ELSE b

\* s[a:b] on bytes (0-based, end exclusive, clipped to the length)
Slice(s, a, b) == SubSeq(s, a + 1, Min(b, Len(s)))

\* s[a:]
SliceFrom(s, a) == SubSeq(s, a + 1, Len(s))

RECURSIVE BitXor(_, _)
\* a ^ b on non-negative integers
BitXor(a, b) ==
    IF a = 0 THEN b
    ELSE IF b = 0 THEN a
    ELSE (((a % 2) + (b % 2)) % 2) + 2 * BitXor(a \div 2, b \div 2)

RECURSIVE BitAnd(_, _)
\* a & b on non-negative integers
BitAnd(a, b) ==
    IF a = 0 \/ b = 0 THEN 0
    ELSE ((a % 2) * (b % 2)) + 2 * BitAnd(a \div 2, b \div 2)

\* bytes.decode() raises UnicodeDecodeError on a byte that never occurs in
\* UTF-8 text; the datagrams of this model hold ASCII bytes and 0xFF only
DecodeRaises(s) == \E i \in 1..Len(s) : s[i] \in {192, 193} \cup (245..255)

\* int(chr(b)) raises ValueError unless b is an ASCII decimal digit
IntRaises(b) == b \notin (48..57)

\* int(chr(b)) for a digit byte
IntOf(b) == b - DIGIT0

\* str(n).encode() for a one-digit n
StrOf(n) == <<DIGIT0 + n>>

RECURSIVE split(_)
\* str.split("::"): cut at every non-overlapping "::", scanning left to right
split(s) ==
    IF \E i \in 1..(Len(s) - 1) : s[i] = COLON /\ s[i + 1] = COLON
    THEN LET i == CHOOSE j \in 1..(Len(s) - 1) :
                      /\ s[j] = COLON /\ s[j + 1] = COLON
                      /\ \A k \in 1..(j - 1) : ~(s[k] = COLON /\ s[k + 1] = COLON)
         IN  <<SubSeq(s, 1, i - 1)>> \o split(SubSeq(s, i + 2, Len(s)))
    ELSE <<s>>

(***************************************************************************)
(* MessageBoardNetwork private helpers.                                    *)
(***************************************************************************)
\* _gen_chksum indexes encoded_msg[0] and encoded_msg[1] unconditionally:
\* IndexError on fewer than 2 bytes
gen_chksum_raises(encoded_msg) == Len(encoded_msg) < 2

RECURSIVE XorFrom(_, _, _)
\* the loop of _gen_chksum: chksum ^= encoded_msg[i] for i in range(i0, len)
XorFrom(encoded_msg, i0, chksum) ==
    IF i0 >= Len(encoded_msg) THEN chksum
    ELSE XorFrom(encoded_msg, i0 + 1, BitXor(chksum, encoded_msg[i0 + 1]))

\* _gen_chksum with the loop started one byte late: range(3, len)
gen_chksum_skip(encoded_msg) ==
    XorFrom(encoded_msg, 3, BitXor(encoded_msg[1], encoded_msg[2]))

\* _gen_chksum for 2 bytes or more
gen_chksum(encoded_msg) ==
    XorFrom(encoded_msg, 2, BitXor(encoded_msg[1], encoded_msg[2]))

\* _chksum_correct
chksum_correct(chksum1, chksum2) == BitAnd(chksum1, chksum2) = chksum1

\* the toggle applied twice: the number is left as it was
update_seqn_twice(seqn) == IF seqn = 0 THEN 0 ELSE 1

\* _update_seqn with the else branch lost: the number sticks at 1
update_seqn_stuck(seqn) == IF seqn = 0 THEN 1 ELSE 1

\* _update_seqn, as a function of the current value
update_seqn(seqn) == IF seqn = 0 THEN 1 ELSE 0

\* the datagram built by getMessages / postMessage
Frame(seqn, payload) ==
    <<VERSION>> \o StrOf(seqn) \o <<gen_chksum(payload)>> \o payload

get_msg(seqn) == Frame(seqn, GET)

complete_post(seqn, user, message) == Frame(seqn, POST_ \o user \o SEP \o message)

(***************************************************************************)
(* Datagrams the channel can put into the client's socket.  recvfrom does  *)
(* not look at the sender, so any datagram addressed to the socket counts. *)
(***************************************************************************)
ReplyFrame(version, seqbyte, chksum, payload) ==
    <<version, seqbyte, chksum>> \o payload

\* a reply as a correct server builds it
Good(seqn, payload) == ReplyFrame(VERSION, DIGIT0 + seqn, gen_chksum(payload), payload)

\* the same reply carrying the complement of its checksum
BadChk(seqn, payload) ==
    ReplyFrame(VERSION, DIGIT0 + seqn, BitXor(gen_chksum(payload), 255), payload)

\* the same reply carrying checksum byte 0
ZeroChk(seqn, payload) == ReplyFrame(VERSION, DIGIT0 + seqn, 0, payload)

P_OK == OK                                                     \* "OK"
P_ONE == OK \o SEP \o <<97>> \o SEP \o <<104>> \o SEP \o <<120>>   \* "OK::a::h::x"
P_ERR == ERROR \o <<117>>                                      \* "ERRORu"
P_XY == <<88, 89>>                                             \* "XY"
P_XYZ == <<88, 89, 90>>                                        \* "XYZ"
P_OKFF == OK \o <<255>>                                        \* b"OK\xff"

ReplyPayloads == {P_OK, P_ONE, P_ERR, P_XY, P_XYZ, P_OKFF}

Replies ==
    {Good(0, p) : p \in ReplyPayloads}
    \cup {Good(1, P_OK)}
    \cup {BadChk(0, P_OK)}
    \cup {ZeroChk(0, P_ERR)}
    \cup {ReplyFrame(68, DIGIT0, gen_chksum(P_OK), P_OK)}      \* version 'D'
    \cup {<<68, DIGIT0>>}                                      \* "D0": no checksum byte
    \cup {ReplyFrame(VERSION, DIGIT0, 65, <<65>>)}             \* "C0AA": payload "A"

(***************************************************************************)
(* The header check of getMessages (105-116, 135-141) and postMessage      *)
(* (194-205, 224-230).                                                     *)
(***************************************************************************)
\* lines 108-111: _gen_chksum(msgs[3:]), msgs[2], int(chr(msgs[1])) raise
HeaderRaises(m) ==
    \/ gen_chksum_raises(SliceFrom(m, 3))
    \/ Len(m) < 3
    \/ IntRaises(m[2])

\* the loop condition without its sequence number test
HeaderOk_noseq(m, seqn) ==
    /\ chksum_correct(m[3], gen_chksum(SliceFrom(m, 3)))
    /\ m[1] = VERSION

\* the negated loop condition of lines 114-116
HeaderOk(m, seqn) ==
    /\ chksum_correct(m[3], gen_chksum(SliceFrom(m, 3)))
    /\ m[1] = VERSION
    /\ seqn = IntOf(m[2])

(***************************************************************************)
(* Application-layer classification.  The result says whether the call     *)
(* raised, whether _update_seqn ran before that, and what was returned.    *)
(***************************************************************************)
Returned(r, d) == [raised |-> FALSE, toggled |-> TRUE, rv |-> r, data |-> d]

Raised(t) == [raised |-> TRUE, toggled |-> t, rv |-> 0, data |-> <<>>]

\* getMessages lines 144-157
GetClassify(m) ==
    IF DecodeRaises(Slice(m, 3, 5)) THEN Raised(FALSE)
    ELSE IF Slice(m, 3, 5) = OK /\ Len(m) > 5
         THEN IF DecodeRaises(SliceFrom(m, 5)) THEN Raised(FALSE)
              ELSE Returned(1, split(SliceFrom(m, 5)))
    ELSE IF Len(m) = 5 THEN Returned(0, <<NO_MESSAGES>>)
    ELSE IF DecodeRaises(Slice(m, 3, 8)) THEN Raised(FALSE)
    ELSE IF Slice(m, 3, 8) = ERROR
         THEN IF DecodeRaises(SliceFrom(m, 8)) THEN Raised(TRUE)
              ELSE Returned(-1, <<SliceFrom(m, 8)>>)
    ELSE Returned(2, <<>>)

\* postMessage lines 232-240
PostClassify(m) ==
    IF DecodeRaises(Slice(m, 3, 5)) THEN Raised(FALSE)
    ELSE IF Slice(m, 3, 5) = OK THEN Returned(0, <<>>)
    ELSE IF DecodeRaises(Slice(m, 3, 8)) THEN Raised(FALSE)
    ELSE IF Slice(m, 3, 8) = ERROR
         THEN IF DecodeRaises(SliceFrom(m, 8)) THEN Raised(TRUE)
              ELSE Returned(-1, <<SliceFrom(m, 8)>>)
    ELSE Returned(2, <<>>)

(***************************************************************************)
(* MessageBoardController: what the callbacks do with the result.          *)
(***************************************************************************)
RECURSIVE Regroup(_, _, _, _)
\* the loop of retrieve_messages lines 297-302 from field i on
Regroup(fields, i, part_of_msg, curr_msg) ==
    IF i > Len(fields) THEN <<>>
    ELSE LET c == curr_msg \o fields[i] \o <<SPACE>>
         IN  IF part_of_msg = 2
             THEN <<c>> \o Regroup(fields, i + 1, (part_of_msg + 1) % 3, <<>>)
             ELSE Regroup(fields, i + 1, (part_of_msg + 1) % 3, c)

\* retrieve_messages lines 293-304: the list handed to setListItems
Render(fields) == Regroup(fields, 1, 0, <<>>)

\* the status label after retrieve_messages handled (rv, msgs)
GetStatus(r, old) ==
    IF r = -1 THEN "retrieve_error"
    ELSE IF r = 0 THEN "no_messages"
    ELSE IF r = -2 THEN "too_many_retries"
    ELSE old

\* the status label after post_message_callback handled (rv, error_m)
PostStatus(r, old) ==
    IF r = -1 THEN "post_error"
    ELSE IF r = 0 THEN "post_success"
    ELSE old

(***************************************************************************)
(* State.                                                                  *)
(***************************************************************************)
VARIABLES
    net,          \* the network of the run: "any" lets every datagram of Replies
                  \*   reach the socket, "server" only replies of the server
    sock,         \* self.sock: "open" from socket.socket(), "closed" after close()
    retries,      \* MessageBoardNetwork.retries (--retries)
    curr_seqn,    \* MessageBoardNetwork._curr_seqn
    sockbuf,      \* datagrams queued in self.sock, oldest first
    pc,           \* the select() call the client is blocked in, "idle" while
                  \*   mainloop waits for an event, "exited" once it has returned
    call,         \* "get" / "post": the method running or last run; "none" before
    req,          \* get_msg / complete_post of the running call
    num_retries,  \* local num_retries
    msgs,         \* local msgs once the header check is passed or the call is
                  \*   over; <<>> while the call waits, where the local is dead
                  \*   (recvfrom overwrites it before it is read again)
    sent,         \* history: the datagrams passed to sendto by this call
    outcome,      \* how the last call ended: "none", "returned", "exhausted", "raised"
    rv,           \* first entry of the returned tuple
    rdata,        \* second entry of the returned tuple
    mlist,        \* the list last handed to view.setListItems
    status,       \* the view's status label
    nTimeouts,    \* history: select() calls of this call that returned empty
    nRejected,    \* history: replies of this call that failed the header check
    nRecv,        \* history: recvfrom calls of this call
    nExch,        \* history: calls started
    nAccepted,    \* history: calls that returned with an accepted reply
    sockorig,     \* history, one entry per datagram of sockbuf: "cur" for a
                  \*   server reply to a request of the latest call, "old" for
                  \*   one to a request of an earlier call, "junk" where the
                  \*   sender is not known (net = "any")
    oldReplies,   \* history: the replies the server can have sent to earlier calls
    prevMsgs,     \* history: the reply the call before this one returned on, or <<>>
    nDup          \* history: copies of prevMsgs this call has rejected
                  \* (the last three are kept on the "server" network only)

vars == <<net, sock, retries, curr_seqn, sockbuf, pc, call, req, num_retries, msgs, sent,
          outcome, rv, rdata, mlist, status, nTimeouts, nRejected, nRecv,
          nExch, nAccepted, sockorig, oldReplies, prevMsgs, nDup>>

\* the replies a server sends to request datagram r: sequence digit echoed,
\* checksum of the payload, "OK" or "ERROR..." and, to a GET, "OK::..."
ServerReplies(r) ==
    IF r = <<>> THEN {}
    ELSE {Good(IntOf(r[2]), p) :
             p \in IF SliceFrom(r, 3) = GET THEN {P_OK, P_ONE, P_ERR}
                                            ELSE {P_OK, P_ERR}} \cap Replies

\* what the network can deliver: anything, or what the server has sent in
\* answer to the requests so far, however late and however often
Deliverable ==
    IF net = "any" THEN Replies ELSE ServerReplies(req) \cup oldReplies

\* which request datagram d can be the answer to
Origins(d) ==
    IF net = "any" THEN {"junk"}
    ELSE (IF d \in ServerReplies(req) THEN {"cur"} ELSE {})
             \cup (IF d \in oldReplies THEN {"old"} ELSE {})

Waiting == {"select_first", "select_retry", "select_reject", "select_reject_retry"}

\* the test written with >= : one transmission too few
RetryLimitExceeded_ge(n, limit) == n >= limit

\* the test written against retries + 1 : one timeout too many
RetryLimitExceeded_late(n, limit) == n > limit + 1

\* lines 95, 125, 184, 214
RetryLimitExceeded(n, limit) == n > limit

\* the frame rebuilt for the resend with the other sequence digit
ResendOnTimeout_reseq(log, frame) ==
    Append(log, <<frame[1], (2 * DIGIT0 + 1) - frame[2]>> \o SubSeq(frame, 3, Len(frame)))

\* lines 99, 129, 188, 218: sendto after a timeout
ResendOnTimeout(log, frame) == Append(log, frame)

\* the loop body without its sendto: the rejected reply is only discarded
ResendOnReject_none(log, frame) == log

\* lines 118, 207: sendto after a reply that failed the header check
ResendOnReject(log, frame) == Append(log, frame)

\* the carried checksum differs from the one recomputed over the payload
ChksumDiffers(m) ==
    /\ Len(m) >= 5
    /\ m[3] # gen_chksum(SliceFrom(m, 3))

InitState ==
    /\ sock = "open"
    /\ retries \in 0..MaxRetries
    /\ curr_seqn = 0
    /\ sockbuf = <<>>
    /\ pc = "idle"
    /\ call = "none"
    /\ req = <<>>
    /\ num_retries = 0
    /\ msgs = <<>>
    /\ sent = <<>>
    /\ outcome = "none"
    /\ rv = 0
    /\ rdata = <<>>
    /\ mlist = <<>>
    /\ status = "starting up"
    /\ nTimeouts = 0
    /\ nRejected = 0
    /\ nRecv = 0
    /\ nExch = 0
    /\ nAccepted = 0
    /\ sockorig = <<>>
    /\ oldReplies = {}
    /\ prevMsgs = <<>>
    /\ nDup = 0

\* a run on a network that can hand the socket any datagram
Init == InitState /\ net = "any"

\* a run on a network that loses, delays, repeats and reorders the server's
\* replies and delivers nothing else
InitServer == InitState /\ net = "server"

\* a callback dispatched while another one is still blocked in select()
Begin_reentrant(c, frame) ==
    /\ pc # "exited"
    /\ nExch < MaxExchanges
    /\ call' = c
    /\ req' = frame
    /\ sent' = <<frame>>
    /\ pc' = "select_first"
    /\ num_retries' = 0
    /\ msgs' = <<>>
    /\ outcome' = "none"
    /\ rv' = 0
    /\ rdata' = <<>>
    /\ nTimeouts' = 0
    /\ nRejected' = 0
    /\ nRecv' = 0
    /\ nExch' = nExch + 1
    /\ sockorig' = [i \in DOMAIN sockorig |->
                        IF sockorig[i] = "cur" THEN "old" ELSE sockorig[i]]
    /\ oldReplies' = IF net = "server" THEN oldReplies \cup ServerReplies(req)
                                        ELSE oldReplies
    /\ prevMsgs' = IF net = "server" /\ outcome = "returned" THEN msgs ELSE <<>>
    /\ nDup' = 0
    /\ UNCHANGED <<net, sock, retries, curr_seqn, sockbuf, mlist, status, nAccepted>>

\* the part common to the start of both calls: first sendto, first select.
\* Both callbacks are dispatched by view.mainloop() (line 260), which runs
\* one callback to its end before the next: getMessages and postMessage
\* block in select() and never hand control back to the event loop.
Begin(c, frame) ==
    /\ pc = "idle"
    /\ nExch < MaxExchanges
    /\ call' = c
    /\ req' = frame
    /\ sent' = <<frame>>
    /\ pc' = "select_first"
    /\ num_retries' = 0
    /\ msgs' = <<>>
    /\ outcome' = "none"
    /\ rv' = 0
    /\ rdata' = <<>>
    /\ nTimeouts' = 0
    /\ nRejected' = 0
    /\ nRecv' = 0
    /\ nExch' = nExch + 1
    /\ sockorig' = [i \in DOMAIN sockorig |->
                        IF sockorig[i] = "cur" THEN "old" ELSE sockorig[i]]
    /\ oldReplies' = IF net = "server" THEN oldReplies \cup ServerReplies(req)
                                        ELSE oldReplies
    /\ prevMsgs' = IF net = "server" /\ outcome = "returned" THEN msgs ELSE <<>>
    /\ nDup' = 0
    /\ UNCHANGED <<net, sock, retries, curr_seqn, sockbuf, mlist, status, nAccepted>>

\* the timer fires: retrieve_messages calls getMessages (lines 83-90)
StartGet == Begin("get", get_msg(curr_seqn))

\* the user enters a text: post_message_callback calls postMessage (173-179)
StartPost == \E m \in Entries : Begin("post", complete_post(curr_seqn, myname, m))

\* a datagram reaches the socket; the socket has an address only once the
\* first sendto has bound it
Deliver ==
    \E d \in Deliverable :
        /\ nExch > 0
        /\ pc # "exited"
        /\ Len(sockbuf) < MaxQueue
        /\ pc \in Waiting => nRejected < MaxRejects
        /\ sockbuf' = Append(sockbuf, d)
        /\ \E o \in Origins(d) : sockorig' = Append(sockorig, o)
        /\ UNCHANGED <<net, sock, retries, curr_seqn, pc, call, req, num_retries, msgs, sent,
                       outcome, rv, rdata, mlist, status, nTimeouts, nRejected,
                       nRecv, nExch, nAccepted, oldReplies, prevMsgs, nDup>>

\* select() returns an empty readlist: lines 93-102, 123-132 (182-191, 212-221)
Timeout ==
    /\ pc \in Waiting
    /\ sockbuf = <<>>
    /\ num_retries' = num_retries + 1
    /\ nTimeouts' = nTimeouts + 1
    /\ IF RetryLimitExceeded(num_retries + 1, retries)
       THEN /\ pc' = "idle"
            /\ outcome' = "exhausted"
            /\ rv' = -2
            /\ rdata' = <<>>
            /\ status' = IF call = "get" THEN GetStatus(-2, status)
                                         ELSE PostStatus(-2, status)
            /\ sent' = sent
       ELSE /\ pc' = IF pc \in {"select_first", "select_retry"}
                     THEN "select_retry" ELSE "select_reject_retry"
            /\ sent' = ResendOnTimeout(sent, req)
            /\ UNCHANGED <<outcome, rv, rdata, status>>
    /\ UNCHANGED <<net, sock, retries, curr_seqn, sockbuf, call, req, msgs, mlist,
                   nRejected, nRecv, nExch, nAccepted, sockorig, oldReplies,
                   prevMsgs, nDup>>

\* select() reports the socket readable: recvfrom, header check, and then
\* either the resend of lines 118/207 or the classification and the
\* controller's handling of the result
Receive ==
    /\ pc \in Waiting
    /\ sockbuf # <<>>
    /\ LET m == Head(sockbuf)
           c == IF call = "get" THEN GetClassify(m) ELSE PostClassify(m)
       IN  /\ sockbuf' = Tail(sockbuf)
           /\ sockorig' = Tail(sockorig)
           /\ nDup' = IF ~HeaderRaises(m) /\ ~HeaderOk(m, curr_seqn) /\ m = prevMsgs
                      THEN nDup + 1 ELSE nDup
           /\ msgs' = IF ~HeaderRaises(m) /\ ~HeaderOk(m, curr_seqn) THEN <<>> ELSE m
           /\ nRecv' = nRecv + 1
           /\ IF HeaderRaises(m)
              THEN /\ pc' = "idle"
                   /\ outcome' = "raised"
                   /\ UNCHANGED <<curr_seqn, sent, rv, rdata, mlist, status,
                                  nRejected, nAccepted>>
              ELSE IF ~HeaderOk(m, curr_seqn)
              THEN /\ pc' = "select_reject"
                   /\ sent' = ResendOnReject(sent, req)
                   /\ nRejected' = nRejected + 1
                   /\ UNCHANGED <<curr_seqn, outcome, rv, rdata, mlist, status,
                                  nAccepted>>
              ELSE IF c.raised
              THEN /\ pc' = "idle"
                   /\ outcome' = "raised"
                   /\ curr_seqn' = IF c.toggled THEN update_seqn(curr_seqn)
                                                ELSE curr_seqn
                   /\ UNCHANGED <<sent, rv, rdata, mlist, status, nRejected,
                                  nAccepted>>
              ELSE /\ pc' = "idle"
                   /\ outcome' = "returned"
                   /\ curr_seqn' = update_seqn(curr_seqn)
                   /\ rv' = c.rv
                   /\ rdata' = c.data
                   /\ mlist' = IF call = "get" /\ c.rv = 1 THEN Render(c.data)
                                                           ELSE mlist
                   /\ status' = IF call = "get" THEN GetStatus(c.rv, status)
                                                ELSE PostStatus(c.rv, status)
                   /\ nAccepted' = nAccepted + 1
                   /\ UNCHANGED <<sent, nRejected>>
    /\ UNCHANGED <<net, sock, retries, call, req, num_retries, nTimeouts, nExch,
                   oldReplies, prevMsgs>>

\* the Quit button (line 344): mainloop returns, run() returns and the
\* script ends; no statement of the program closes self.sock. What was
\* still queued in the socket is gone with the process.
Quit ==
    /\ pc = "idle"
    /\ pc' = "exited"
    /\ sockbuf' = <<>>
    /\ sockorig' = <<>>
    /\ UNCHANGED <<net, sock, retries, curr_seqn, call, req, num_retries, msgs,
                   sent, outcome, rv, rdata, mlist, status, nTimeouts, nRejected,
                   nRecv, nExch, nAccepted, oldReplies, prevMsgs, nDup>>

Next ==
    \/ Quit
    \/ StartGet
    \/ StartPost
    \/ Deliver
    \/ Timeout
    \/ Receive

Spec == Init /\ [][Next]_vars

ServerSpec == InitServer /\ [][Next]_vars

(***************************************************************************)
(* Properties.                                                             *)
(***************************************************************************)
Ended == pc \in {"idle", "exited"} /\ call # "none"

\* the payload of a datagram
Payload(m) == SliceFrom(m, 3)

\* C1: an exchange during which recvfrom never ran has sent the request
\* once plus once per timeout so far, never more than retries + 1 times, and
\* it can only end with (-2, 0), after exactly retries + 1 transmissions.
C1_RetryBound ==
    (call # "none" /\ nRecv = 0) =>
        /\ pc \in Waiting => (Len(sent) = num_retries + 1 /\ num_retries <= retries)
        /\ Ended => /\ outcome = "exhausted"
                    /\ rv = -2
                    /\ nTimeouts = retries + 1
                    /\ Len(sent) = retries + 1

\* postMessage with --retries 2 and a silent server: 3 datagrams, then -2
C1_Witness ==
    /\ Ended /\ call = "post" /\ outcome = "exhausted" /\ rv = -2
    /\ nRecv = 0 /\ retries = 2 /\ Len(sent) = 3

\* C2: _curr_seqn is 0 after construction and always 0 or 1; as long as every
\* call so far returned with an accepted reply, it is (number of such calls)
\* mod 2, and the datagrams of the next call carry that digit.
C2_SeqAlternation ==
    /\ curr_seqn \in {0, 1}
    /\ nExch = 0 => curr_seqn = 0
    /\ (pc = "idle" /\ nAccepted = nExch) => curr_seqn = nAccepted % 2
    /\ (pc \in Waiting /\ nAccepted = nExch - 1) =>
           \A i \in 1..Len(sent) : sent[i][2] = DIGIT0 + (nAccepted % 2)

\* two calls, both accepted, the second one sent with digit '1': the number
\* is 0 again
C2_Witness ==
    /\ pc = "idle" /\ nExch = 2 /\ nAccepted = 2
    /\ sent[1][2] = DIGIT0 + 1 /\ curr_seqn = 0

\* C3 (as claimed): a call returns with an accepted reply only if the reply's
\* checksum byte equals the checksum recomputed over its payload.
C3_Orig ==
    (Ended /\ outcome = "returned") => msgs[3] = gen_chksum(Payload(msgs))

\* the reply fails the version test or the sequence-number test
FailsVersionOrSeqn(m, seqn) ==
    \/ Len(m) < 2
    \/ m[1] # VERSION
    \/ m[2] # DIGIT0 + seqn

\* C4 (as claimed): receiving a reply whose version is not 'C' or whose
\* sequence digit is not the current sequence number leaves the call waiting
\* and leaves _curr_seqn alone.
C4_Orig ==
    [][(nRecv' = nRecv + 1 /\ FailsVersionOrSeqn(Head(sockbuf), curr_seqn))
          => (pc' \in Waiting /\ curr_seqn' = curr_seqn)]_vars

\* C5 (as claimed): a rejected reply causes no transmission, and a call never
\* sends more than retries + 1 datagrams.
C5_Orig ==
    [][/\ nRejected' = nRejected + 1 => sent' = sent
       /\ Len(sent') <= retries + 1]_vars

\* C5 (amended): every rejected reply is answered by one more transmission of
\* the same request: a call has sent the request once, plus once per timeout
\* that did not end it, plus once per rejected reply.
C5_ResendOnReject ==
    call # "none" =>
        /\ Len(sent) = 1 + Min(num_retries, retries) + nRejected
        /\ \A i \in 1..Len(sent) : sent[i] = req

\* two rejected replies and one timeout with --retries 1: 4 datagrams sent
C5_Witness ==
    /\ pc \in Waiting /\ retries = 1 /\ nRejected = 2 /\ num_retries = 1
    /\ Len(sent) = 4

\* C6: num_retries is 0 at the first select, equals the number of timeouts of
\* the call whatever replies were rejected in between, and the call returns
\* (-2, 0) exactly when that number reaches retries + 1.
C6_RetryCounter ==
    call # "none" =>
        /\ pc = "select_first" => num_retries = 0
        /\ num_retries = nTimeouts
        /\ nTimeouts <= retries + 1
        /\ (outcome = "exhausted") <=> (nTimeouts = retries + 1)
        /\ (outcome = "exhausted") => (Ended /\ rv = -2)

\* the budget ran out on timeouts counted before and after a rejected reply
C6_Witness ==
    /\ Ended /\ outcome = "exhausted" /\ retries = 2
    /\ nRejected >= 1 /\ nTimeouts = 3 /\ Len(sent) = 4

\* C7 (as claimed): every started call reaches one of the two terminal
\* outcomes, Accepted (a returned result) or RetriesExhausted; so a call that
\* is over is over with one of them.
C7_Orig ==
    Ended => outcome \in {"returned", "exhausted"}

\* C8 (as claimed): when the first reply of a call carries a wrong checksum,
\* the call does not return on it: a returned result is never computed from
\* that first reply.
C8_Orig ==
    [][(/\ pc \in Waiting /\ nRecv = 0 /\ nRecv' = 1
        /\ ChksumDiffers(Head(sockbuf)))
          => outcome' # "returned"]_vars

\* the fields of a payload "OK::f1::f2::..."
FieldsAfterOk(p) == split(SliceFrom(p, 4))

\* the rendering the claim describes: one entry per 3 consecutive fields
RenderedByThrees(f) ==
    [i \in 1..(Len(f) \div 3) |->
        f[3 * i - 2] \o <<SPACE>> \o f[3 * i - 1] \o <<SPACE>> \o f[3 * i] \o <<SPACE>>]

\* C9 (as claimed): an accepted GET reply "OK::f1::...::f3k" hands the view
\* exactly k entries, the i-th made of fields 3i-2, 3i-1, 3i, each followed by
\* a space.
C9_Orig ==
    (/\ Ended /\ call = "get" /\ outcome = "returned"
     /\ Slice(Payload(msgs), 0, 4) = OK \o SEP
     /\ Len(FieldsAfterOk(Payload(msgs))) % 3 = 0)
        => mlist = RenderedByThrees(FieldsAfterOk(Payload(msgs)))

\* C10 (as claimed): getMessages returns 0 iff the accepted payload is exactly
\* "OK", 1 only for a payload beginning "OK::", -1 with the rest of the
\* payload for one beginning "ERROR", and 2 for every other payload.
C10_Orig ==
    (Ended /\ call = "get" /\ outcome = "returned") =>
        LET p == Payload(msgs)
        IN  /\ (rv = 0) <=> (p = OK)
            /\ (rv = 1) => (Slice(p, 0, 4) = OK \o SEP)
            /\ (Slice(p, 0, 5) = ERROR) => (rv = -1 /\ rdata = <<SliceFrom(p, 5)>>)
            /\ (p # OK /\ Slice(p, 0, 4) # OK \o SEP /\ Slice(p, 0, 5) # ERROR)
                   => rv = 2

\* C11 (as claimed): postMessage returns 0 iff the accepted payload is exactly
\* "OK", -1 with the rest of the payload for one beginning "ERROR", and 2 for
\* every other payload.
C11_Orig ==
    (Ended /\ call = "post" /\ outcome = "returned") =>
        LET p == Payload(msgs)
        IN  /\ (rv = 0) <=> (p = OK)
            /\ (Slice(p, 0, 5) = ERROR) => (rv = -1 /\ rdata = <<SliceFrom(p, 5)>>)
            /\ (p # OK /\ Slice(p, 0, 5) # ERROR) => rv = 2

\* C12 (as claimed): receiving a datagram shorter than the 3-byte header
\* leaves the call waiting with its retry counter untouched; the call does
\* not end on it.
C12_Orig ==
    [][(nRecv' = nRecv + 1 /\ Len(Head(sockbuf)) < 3)
          => (pc' \in Waiting /\ num_retries' = num_retries /\ outcome' = outcome)]_vars

RECURSIVE XorAll(_)
\* the XOR of all bytes of a byte string, 0 for the empty one
XorAll(p) == IF p = <<>> THEN 0 ELSE BitXor(Head(p), XorAll(Tail(p)))

\* C13 (as claimed): for the payload of every received datagram that has one
\* (1 byte or more), the checksum computation yields the XOR of all payload
\* bytes, and a frame carrying that XOR validates against it.
C13_Orig ==
    [][(nRecv' = nRecv + 1 /\ Len(Payload(Head(sockbuf))) >= 1)
          => LET p == Payload(Head(sockbuf))
             IN  /\ ~gen_chksum_raises(p)
                 /\ gen_chksum(p) = XorAll(p)
                 /\ chksum_correct(XorAll(p), gen_chksum(p))]_vars

\* the payload the running call sends
RequestPayloads ==
    IF call = "get" THEN {GET}
    ELSE {POST_ \o myname \o SEP \o m : m \in Entries}

\* C14: every datagram passed to sendto is 'C', the ASCII digit of
\* _curr_seqn, the XOR of the payload bytes alone, and then the payload,
\* which is "GET" in getMessages and "POST <user>::<message>" in postMessage.
C14_FrameLayout ==
    pc \in Waiting =>
        \A i \in 1..Len(sent) :
            \E p \in RequestPayloads :
                sent[i] = <<VERSION, DIGIT0 + curr_seqn, XorAll(p)>> \o p

\* a retransmitted POST carrying sequence digit '1'
C14_Witness ==
    /\ pc \in Waiting /\ call = "post" /\ curr_seqn = 1 /\ Len(sent) >= 2
    /\ sent[2] = <<67, 49, 32, 80, 79, 83, 84, 32, 117, 58, 58, 109>>

C16_Orig == (pc = "exited") => (sock = "closed")

\* C17: every datagram a call passes to sendto is byte for byte the one it
\* sent first, and while the call is outstanding the sequence number is the
\* one that datagram carries.
C17_SameDatagram ==
    /\ \A i \in 1..Len(sent) : sent[i] = sent[1]
    /\ pc \in Waiting => IntOf(sent[1][2]) = curr_seqn

\* a call at sequence number 1 that has resent after a timeout and again
\* after a rejected reply
C17_Witness ==
    /\ pc \in Waiting /\ curr_seqn = 1
    /\ nTimeouts >= 1 /\ nRejected >= 1 /\ Len(sent) >= 3

\* C18: a call that ends with (-2, 0) leaves the sequence number as it was
\* when the call began; a call that returns on an accepted reply, whatever
\* its return code, leaves it toggled once.
C18_SeqEffect ==
    Ended =>
        /\ outcome = "exhausted" => curr_seqn = IntOf(req[2])
        /\ outcome = "returned" =>
              /\ rv \in {-1, 0, 1, 2}
              /\ curr_seqn = 1 - IntOf(req[2])

\* a second call, a GET sent with digit '0', returned on an unrecognized
\* reply: the number is now 1
C18_Witness ==
    /\ Ended /\ call = "get" /\ outcome = "returned" /\ rv = 2
    /\ nExch = 2 /\ req[2] = DIGIT0 /\ curr_seqn = 1

\* C19 (as claimed): the reply a call returns on was sent by the server in
\* answer to a request of that same call; a reply the server sent to an
\* earlier call is never the one a later call returns on.
C19_Orig ==
    [][(nRecv' = nRecv + 1 /\ outcome' = "returned") => Head(sockorig) # "old"]_vars

\* C20: a copy of the reply the call before returned on, received by the
\* call that follows it, is well-formed but carries the other sequence
\* digit: it is rejected, and the call resends and waits on.
C20_DuplicateRejected ==
    [][(nRecv' = nRecv + 1 /\ prevMsgs # <<>> /\ Head(sockbuf) = prevMsgs) =>
          /\ Head(sockbuf)[1] = VERSION
          /\ IntOf(Head(sockbuf)[2]) # curr_seqn
          /\ pc' = "select_reject"
          /\ outcome' = "none"
          /\ curr_seqn' = curr_seqn
          /\ nDup' = nDup + 1]_vars

\* the second call has rejected a copy of the "OK::a::h::x" reply the first
\* call returned on, and waits for its own reply
C20_Witness ==
    /\ pc = "select_reject" /\ nExch = 2 /\ nDup = 1 /\ nRejected = 1
    /\ prevMsgs = Good(0, P_ONE) /\ curr_seqn = 1

====
